---- MODULE Spec2Model ----
(***************************************************************************)
(* Simple Investor Portfolio (src/index.js): the in-memory collections,    *)
(* their persisted copies, the price resolver, the valuation engine, the   *)
(* portfolio chart series and the form / import handlers that mutate the   *)
(* collections.                                                            *)
(*                                                                         *)
(* Numbers: timestamps, prices and quantities are integers here (epoch     *)
(* milliseconds and amounts in a smallest unit); a price that may be JS    *)
(* null is an option: <<>> for null, <<p>> for the number p.               *)
(***************************************************************************)
EXTENDS Integers, Sequences, FiniteSets, TLC

\* etfs, purchases, goals, ui: the in-memory collections; ls: localStorage's
\* four keys, <<>> for an absent key and <<v>> for a stored value; alerted: the
\* alert the last handler showed; pre: the file and the state an import found,
\* kept until the next handler runs; result: what the last engine call returned
VARIABLES etfs, purchases, goals, ui, ls, alerted, pre, result

vars == <<etfs, purchases, goals, ui, ls, alerted, pre, result>>

(* ------------------------------ bounds --------------------------------- *)
\* timestamps of stored events are 1..MaxTs; queries range over 0..MaxTs+1
MaxTs == 3
\* observations of the instrument in the price-resolver specification
MaxObs == 3
\* observations plus purchases of the valuation engine's inputs
MaxEvents == 3
\* observations the price forms add while fewer than this are stored
MaxAppObs == 2
\* purchases the purchase form adds while fewer than this are stored
MaxAppPurchases == 1

Symbols == {"A", "B"}
Timestamps == 1 .. MaxTs
QueryTimes == 0 .. (MaxTs + 1)
PriceVals == {1, 2}

SeqsUpTo(S, n) == UNION {[1 .. k -> S] : k \in 0 .. n}

(* ------------------------------ values --------------------------------- *)
None == <<>>
Some(x) == <<x>>

Abs(x) == IF x < 0 THEN 0 - x ELSE x

Obs(t, p) == [ts |-> t, price |-> p]
Etf(s, ps) == [symbol |-> s, name |-> "Fund", prices |-> ps]

\* An element of an imported etfs array that is JS null: any property read on
\* it throws.  It is a record of the instruments' shape so that the model's
\* values stay comparable; no handler creates it.
NullElem == [symbol |-> "<null>", name |-> "<null>", prices |-> <<>>]

DefaultUi == [active |-> "etfs", expandedEtfs |-> <<>>]

NoResult == [op |-> "none"]

RECURSIVE SumObs(_, _)
SumObs(es, n) == IF n = 0 THEN 0 ELSE Len(es[n].prices) + SumObs(es, n - 1)

(* --------------------------- price lookup ------------------------------ *)
\* etfs.find((x) => x.symbol === symbol): the first match, 0 for undefined
RECURSIVE FindFrom(_, _, _)
FindFrom(es, symbol, i) ==
    IF i > Len(es) THEN 0
    ELSE IF es[i].symbol = symbol THEN i
    ELSE FindFrom(es, symbol, i + 1)

FindEtf(symbol) == FindFrom(etfs, symbol, 1)

\* Array.prototype.sort((a, b) => a.ts - b.ts): ascending by ts, stable
RECURSIVE InsertByTs(_, _)
InsertByTs(p, s) ==
    IF s = <<>> THEN <<p>>
    ELSE IF s[Len(s)].ts <= p.ts THEN Append(s, p)
    ELSE Append(InsertByTs(p, SubSeq(s, 1, Len(s) - 1)), s[Len(s)])

RECURSIVE SortByTs(_)
SortByTs(s) ==
    IF s = <<>> THEN <<>>
    ELSE InsertByTs(s[Len(s)], SortByTs(SubSeq(s, 1, Len(s) - 1)))

\* SortedPrices with the sort left out: the lookup scans the stored order
UnsortedPrices(ps) == ps

\* const sorted = [...e.prices].sort((a, b) => a.ts - b.ts)
SortedPrices(ps) == SortByTs(ps)

\* for (const p of sorted) { if (p.ts <= ts) candidate = p; else break; }
\* the index of the candidate, 0 for null
RECURSIVE ScanCandidate(_, _, _, _)
ScanCandidate(sorted, ts, i, cand) ==
    IF i > Len(sorted) THEN cand
    ELSE IF sorted[i].ts <= ts THEN ScanCandidate(sorted, ts, i + 1, i)
    ELSE cand

\* for (const p of sorted) { diff = |p.ts - ts|; if (diff < minDiff) ... }
RECURSIVE ScanClosest(_, _, _, _)
ScanClosest(sorted, ts, i, closest) ==
    IF i > Len(sorted) THEN closest
    ELSE IF Abs(sorted[i].ts - ts) < Abs(sorted[closest].ts - ts)
         THEN ScanClosest(sorted, ts, i + 1, i)
    ELSE ScanClosest(sorted, ts, i + 1, closest)

\* ScanClosest with <= for <: on a tie the later observation wins
RECURSIVE ScanClosestLast(_, _, _, _)
ScanClosestLast(sorted, ts, i, closest) ==
    IF i > Len(sorted) THEN closest
    ELSE IF Abs(sorted[i].ts - ts) <= Abs(sorted[closest].ts - ts)
         THEN ScanClosestLast(sorted, ts, i + 1, i)
    ELSE ScanClosestLast(sorted, ts, i + 1, closest)

FallbackClosestLast(sorted, ts) == sorted[ScanClosestLast(sorted, ts, 1, 1)]

\* let closest = sorted[0]; ... return closest
FallbackClosest(sorted, ts) == sorted[ScanClosest(sorted, ts, 1, 1)]

\* the observation priceAt resolves to, on a non-empty price list
ResolveObs(ps, ts) ==
    LET sorted == SortedPrices(ps)
        c == ScanCandidate(sorted, ts, 1, 0)
    IN  IF c # 0 THEN sorted[c] ELSE FallbackClosest(sorted, ts)

\* priceAt without the closest-observation fallback
priceAtAsOfOnly(symbol, ts) ==
    LET i == FindEtf(symbol)
        sorted == SortedPrices(etfs[i].prices)
        c == ScanCandidate(sorted, ts, 1, 0)
    IN  IF i = 0 \/ Len(etfs[i].prices) = 0 \/ c = 0 THEN None
        ELSE Some(sorted[c].price)

priceAt(symbol, ts) ==
    LET i == FindEtf(symbol)
    IN  IF i = 0 \/ Len(etfs[i].prices) = 0 THEN None
        ELSE Some(ResolveObs(etfs[i].prices, ts).price)

\* e.prices.reduce((a, b) => (a.ts > b.ts ? a : b))
RECURSIVE ReduceLatest(_, _, _)
ReduceLatest(ps, i, a) ==
    IF i > Len(ps) THEN a
    ELSE ReduceLatest(ps, i + 1, IF a.ts > ps[i].ts THEN a ELSE ps[i])

\* latestPrice taking the last stored observation for the latest
latestPriceLastStored(symbol) ==
    LET i == FindEtf(symbol)
    IN  IF i = 0 \/ Len(etfs[i].prices) = 0 THEN None
        ELSE Some(etfs[i].prices[Len(etfs[i].prices)].price)

latestPrice(symbol) ==
    LET i == FindEtf(symbol)
    IN  IF i = 0 \/ Len(etfs[i].prices) = 0 THEN None
        ELSE Some(ReduceLatest(etfs[i].prices, 2, etfs[i].prices[1]).price)

(* ------------- what a lookup leaves in the stored arrays --------------- *)
\* e.prices.sort(...): the stored array itself is reordered
StoredAfterSortInPlace(ps) == SortByTs(ps)

\* [...e.prices].sort(...): the copy is reordered, the stored array is as it was
StoredAfterLookup(ps) == ps

\* etfs after priceAt has run for each of the symbols: it reaches the first
\* instrument of the symbol, and sorts only when there is an observation
EtfsAfterPriceAt(symbols) ==
    [i \in 1 .. Len(etfs) |->
        IF etfs[i].symbol \in symbols /\ FindEtf(etfs[i].symbol) = i /\ Len(etfs[i].prices) > 0
        THEN [etfs[i] EXCEPT !.prices = StoredAfterLookup(@)]
        ELSE etfs[i]]

(* ------------------- the price resolver on its inputs ------------------ *)
Persisted == [etfs |-> Some(etfs), purchases |-> Some(purchases),
              goals |-> Some(goals), ui |-> Some(ui)]

PriceInit ==
    /\ \E ps \in SeqsUpTo({Obs(t, p) : t \in Timestamps, p \in PriceVals}, MaxObs) :
         \E others \in {<<>>, <<Etf("B", <<>>)>>} :
            etfs = <<Etf("A", ps)>> \o others
    /\ purchases = <<>>
    /\ goals = <<>>
    /\ ui = DefaultUi
    /\ ls = Persisted
    /\ alerted = "none"
    /\ pre = None
    /\ result = NoResult

CallPriceAt ==
    \E s \in Symbols, t \in QueryTimes :
        /\ result' = [op |-> "priceAt", symbol |-> s, ts |-> t, value |-> priceAt(s, t)]
        /\ etfs' = EtfsAfterPriceAt({s})
        /\ UNCHANGED <<purchases, goals, ui, ls, alerted, pre>>

CallLatestPrice ==
    \E s \in Symbols :
        /\ result' = [op |-> "latestPrice", symbol |-> s, value |-> latestPrice(s)]
        /\ UNCHANGED <<etfs, purchases, goals, ui, ls, alerted, pre>>

PriceNext == CallPriceAt \/ CallLatestPrice

PriceSpec == PriceInit /\ [][PriceNext]_vars

(* ---------------------------- calculations ----------------------------- *)
\* for (const p of purchases) { ... invested += ...; current += ... }
RECURSIVE TotalsLoop(_, _, _)
TotalsLoop(i, invested, current) ==
    IF i > Len(purchases) THEN [invested |-> invested, current |-> current]
    ELSE LET p == purchases[i]
             unitAtBuy == priceAt(p.symbol, p.ts)
             unitNow == latestPrice(p.symbol)
         IN  TotalsLoop(i + 1,
                 IF unitAtBuy # None THEN invested + p.qty * unitAtBuy[1] ELSE invested,
                 IF unitNow # None THEN current + p.qty * unitNow[1] ELSE current)

\* computeTotals with unitNow taken from priceAt: current is priced like invested
computeTotalsAtBuy ==
    LET t == TotalsLoop(1, 0, 0)
    IN  [invested |-> t.invested, current |-> t.invested, pl |-> 0,
         plPct |-> [num |-> 0, den |-> 1]]

\* plPct is the exact quotient (pl / invested) * 100, kept as the fraction
\* num / den with den > 0; the literal 0 of the else branch is 0 / 1
computeTotals ==
    LET t == TotalsLoop(1, 0, 0)
        pl == t.current - t.invested
    IN  [invested |-> t.invested, current |-> t.current, pl |-> pl,
         plPct |-> IF t.invested > 0 THEN [num |-> pl * 100, den |-> t.invested]
                   ELSE [num |-> 0, den |-> 1]]

(* --------------------------- portfolio chart --------------------------- *)
\* TimesSet without the purchases: the timeline of the price timestamps alone
TimesSetPricesOnly ==
    UNION {{etfs[i].prices[j].ts : j \in 1 .. Len(etfs[i].prices)} : i \in 1 .. Len(etfs)}

\* const times = new Set(); every price timestamp, then every purchase timestamp
TimesSet ==
    UNION {{etfs[i].prices[j].ts : j \in 1 .. Len(etfs[i].prices)} : i \in 1 .. Len(etfs)}
    \cup {purchases[i].ts : i \in 1 .. Len(purchases)}

\* Array.from(times).map(Number).sort((a, b) => a - b)
RECURSIVE SortAsc(_)
SortAsc(S) ==
    IF S = {} THEN <<>>
    ELSE LET m == CHOOSE x \in S : \A y \in S : x <= y
         IN  <<m>> \o SortAsc(S \ {m})

\* points, after the optional range filter (from, to: null or a timestamp)
ChartPoints(from, to) ==
    LET all == SortAsc(TimesSet)
        f1 == IF from # None THEN SelectSeq(all, LAMBDA t : t >= from[1]) ELSE all
    IN  IF to # None THEN SelectSeq(f1, LAMBDA t : t <= to[1]) ELSE f1

\* PurchasesUpTo with < for <=: a purchase made at t is not yet held at t
PurchasesBefore(t) == SelectSeq(purchases, LAMBDA p : p.ts < t)

\* purchases.filter(p => p.ts <= t)
PurchasesUpTo(t) == SelectSeq(purchases, LAMBDA p : p.ts <= t)

\* qtyBySymbol[p.symbol] = (qtyBySymbol[p.symbol] || 0) + p.qty, as the keys in
\* insertion order with the quantity of each
RECURSIVE QtyBySymbol(_, _, _)
QtyBySymbol(ps, keys, qty) ==
    IF ps = <<>> THEN [keys |-> keys, qty |-> qty]
    ELSE LET p == ps[1]
             seen == \E k \in 1 .. Len(keys) : keys[k] = p.symbol
         IN  QtyBySymbol(SubSeq(ps, 2, Len(ps)),
                 IF seen THEN keys ELSE Append(keys, p.symbol),
                 [qty EXCEPT ![p.symbol] = @ + p.qty])

\* for (const sym of Object.keys(qtyBySymbol)) { ... value += ... }
RECURSIVE ValueLoop(_, _, _, _)
ValueLoop(q, t, k, value) ==
    IF k > Len(q.keys) THEN value
    ELSE LET unit == priceAt(q.keys[k], t)
         IN  ValueLoop(q, t, k + 1,
                 IF unit # None THEN value + q.qty[q.keys[k]] * unit[1] ELSE value)

ValuePoint(t) ==
    [x |-> t,
     y |-> ValueLoop(QtyBySymbol(PurchasesUpTo(t), <<>>, [s \in Symbols |-> 0]), t, 1, 0)]

\* purchases.filter(p => p.ts <= t).forEach(p => { ... investedTotal += ... })
RECURSIVE InvestedLoop(_, _, _)
InvestedLoop(ps, i, total) ==
    IF i > Len(ps) THEN total
    ELSE LET unitAtBuy == priceAt(ps[i].symbol, ps[i].ts)
         IN  InvestedLoop(ps, i + 1,
                 IF unitAtBuy # None THEN total + ps[i].qty * unitAtBuy[1] ELSE total)

\* let investedTotal = 0; const seriesInvested = points.map(t => { ... })
\* investedTotal is declared outside the map callback and never reset
RECURSIVE SeriesInvested(_, _, _)
SeriesInvested(points, k, investedTotal) ==
    IF k > Len(points) THEN <<>>
    ELSE LET total == InvestedLoop(PurchasesUpTo(points[k]), 1, investedTotal)
         IN  <<[x |-> points[k], y |-> total]>> \o SeriesInvested(points, k + 1, total)

renderPortfolioChart(from, to) ==
    LET points == ChartPoints(from, to)
    IN  [points |-> points,
         seriesCurrent |-> [k \in 1 .. Len(points) |-> ValuePoint(points[k])],
         seriesInvested |-> SeriesInvested(points, 1, 0)]

(* ----------------- the valuation engine on its inputs ------------------ *)
EngineTimestamps == {1, 2}
EnginePrices == {1, 2}
EngineObs == {Obs(t, p) : t \in EngineTimestamps, p \in EnginePrices}
EnginePurchases ==
    {[symbol |-> s, ts |-> t, qty |-> q] : s \in Symbols, t \in EngineTimestamps, q \in {1, 2}}
RangeBounds == {None, Some(2)}

\* instruments with distinct symbols in either stored order, one instrument
\* (purchases of the other symbol then have none), or no instrument
EngineEtfs(pa, pb) ==
    {<<Etf("A", pa), Etf("B", pb)>>, <<Etf("B", pb), Etf("A", pa)>>}
    \cup (IF pb = <<>> THEN {<<Etf("A", pa)>>} ELSE {})
    \cup (IF pa = <<>> THEN {<<Etf("B", pb)>>} ELSE {})
    \cup (IF pa = <<>> /\ pb = <<>> THEN {<<>>} ELSE {})

EngineInit ==
    /\ \E na \in 0 .. MaxEvents :
         \E nb \in 0 .. (MaxEvents - na) :
           \E np \in 0 .. (MaxEvents - na - nb) :
             \E pa \in [1 .. na -> EngineObs], pb \in [1 .. nb -> EngineObs] :
                /\ etfs \in EngineEtfs(pa, pb)
                /\ purchases \in [1 .. np -> EnginePurchases]
    /\ goals = <<>>
    /\ ui = [active |-> "dashboard", expandedEtfs |-> <<>>]
    /\ ls = Persisted
    /\ alerted = "none"
    /\ pre = None
    /\ result = NoResult

\* computeTotals calls priceAt for every purchase
CallComputeTotals ==
    /\ result' = [op |-> "totals", value |-> computeTotals]
    /\ etfs' = EtfsAfterPriceAt({purchases[k].symbol : k \in 1 .. Len(purchases)})
    /\ UNCHANGED <<purchases, goals, ui, ls, alerted, pre>>

\* the symbols priceAt is called for: those of the purchases made at or before
\* some point of the chart
ChartLookups(from, to) ==
    LET points == ChartPoints(from, to)
    IN  {purchases[k].symbol : k \in {n \in 1 .. Len(purchases) :
            \E m \in 1 .. Len(points) : purchases[n].ts <= points[m]}}

CallRenderPortfolioChart ==
    \E from \in RangeBounds, to \in RangeBounds :
        /\ result' = [op |-> "chart", from |-> from, to |-> to,
                      value |-> renderPortfolioChart(from, to)]
        /\ etfs' = EtfsAfterPriceAt(ChartLookups(from, to))
        /\ UNCHANGED <<purchases, goals, ui, ls, alerted, pre>>

EngineNext == CallComputeTotals \/ CallRenderPortfolioChart

EngineSpec == EngineInit /\ [][EngineNext]_vars

(* ---------------- every engine computation, in any order --------------- *)
MaxFrameObs == 2
FramePurchases ==
    {[symbol |-> "A", ts |-> 1, qty |-> 1], [symbol |-> "A", ts |-> 2, qty |-> 2],
     [symbol |-> "B", ts |-> 2, qty |-> 1]}
FramePurchaseLists ==
    {<<>>} \cup {<<p>> : p \in FramePurchases}
    \cup {<<pq[1], pq[2]>> : pq \in {x \in FramePurchases \X FramePurchases : x[1] # x[2]}}
FrameGoals == <<[id |-> "goal_1", name |-> "Goal", target |-> 10, monthly |-> 1]>>

\* instrument A with its observations in any stored order, instrument B with
\* none or with two stored latest first
FrameInit ==
    /\ \E pa \in SeqsUpTo(EngineObs, MaxFrameObs), pb \in {<<>>, <<Obs(2, 1), Obs(1, 2)>>} :
          etfs \in EngineEtfs(pa, pb)
    /\ purchases \in FramePurchaseLists
    /\ goals = FrameGoals
    /\ ui = [active |-> "dashboard", expandedEtfs |-> <<>>]
    /\ ls = Persisted
    /\ alerted = "none"
    /\ pre = None
    /\ result = NoResult

FrameNext == PriceNext \/ EngineNext

FrameSpec == FrameInit /\ [][FrameNext]_vars

(* ------------------------- the application ----------------------------- *)
Tabs == {"etfs", "purchases", "dashboard"}
AppTimestamps == {1, 2}

\* what parseFloat makes of a field's text
NaN == [kind |-> "NaN", v |-> 0]
Infinite == [kind |-> "Infinity", v |-> 0]
Num(x) == [kind |-> "num", v |-> x]
isFinite(x) == x.kind = "num"
PriceInputs == {NaN, Infinite, Num(-1), Num(0), Num(2)}
QtyInputs == {NaN, Num(-1), Num(0), Num(1), Num(2)}
\* the sums are multiples of the positive prices, so that sum / unit is exact
SumInputs == {NaN, Num(0), Num(4)}

\* $('#etf-symbol').value.trim().toUpperCase()
TrimUpper(raw) ==
    CASE raw = "" -> ""
      [] raw = "  " -> ""
      [] raw = "a" -> "A"
      [] raw = " a " -> "A"
      [] raw = "A" -> "A"
      [] raw = "b" -> "B"
      [] raw = "B" -> "B"
SymbolTexts == {"", "  ", "a", " a ", "A", "b", "B"}
NameTexts == {"", "Fund"}

\* a.symbol.localeCompare(b.symbol) on the symbols of the model
SymRank(sym) == IF sym = "A" THEN 1 ELSE 2

RECURSIVE InsertBySymbol(_, _)
InsertBySymbol(e, s) ==
    IF s = <<>> THEN <<e>>
    ELSE IF SymRank(s[Len(s)].symbol) <= SymRank(e.symbol) THEN Append(s, e)
    ELSE Append(InsertBySymbol(e, SubSeq(s, 1, Len(s) - 1)), s[Len(s)])

RECURSIVE SortBySymbol(_)
SortBySymbol(s) ==
    IF s = <<>> THEN <<>>
    ELSE InsertBySymbol(s[Len(s)], SortBySymbol(SubSeq(s, 1, Len(s) - 1)))

HasNull(es) == \E i \in 1 .. Len(es) : es[i] = NullElem

\* etfs.sort(...).forEach(...) of renderEtfs and etfs.slice().sort(...).forEach
\* of refreshPurchaseSymbols read e.symbol of every element: a null element
\* throws a TypeError
RenderThrows(es) == HasNull(es)

\* renderEtfs sorts the in-memory array in place
RenderedEtfs(es) == IF RenderThrows(es) THEN es ELSE SortBySymbol(es)

\* setActiveTab: the in-memory etfs after the tab's render
AfterTab(es, tab) == IF tab = "etfs" THEN RenderedEtfs(es) ELSE es

TotalObs(es) == SumObs(es, Len(es))

Snapshot == [etfs |-> etfs, purchases |-> purchases, goals |-> goals, ui |-> ui, ls |-> ls]

\* startup on an empty store with no default document: the collections of
\* lines 44-50, then initTabs' setActiveTab(ui.active) saves ui
Init ==
    /\ etfs = <<>>
    /\ purchases = <<>>
    /\ goals = <<>>
    /\ ui = DefaultUi
    /\ ls = [etfs |-> None, purchases |-> None, goals |-> None, ui |-> Some(DefaultUi)]
    /\ alerted = "none"
    /\ pre = None
    /\ result = NoResult

SetActiveTab ==
    \E tab \in Tabs :
        /\ ui' = [ui EXCEPT !.active = tab]
        /\ ls' = [ls EXCEPT !.ui = Some(ui')]
        /\ etfs' = AfterTab(etfs, tab)
        /\ alerted' = "none"
        /\ pre' = None
        /\ UNCHANGED <<purchases, goals, result>>

\* an exists check that never finds the symbol
SymbolExistsNever(symbol) == FALSE

\* etfs.some((x) => x.symbol === symbol)
SymbolExists(symbol) == \E i \in 1 .. Len(etfs) : etfs[i].symbol = symbol

\* form-add-etf onsubmit
AddEtf ==
    \E rawSymbol \in SymbolTexts, name \in NameTexts :
        LET symbol == TrimUpper(rawSymbol)
        IN  /\ ui.active = "etfs"
            /\ ~HasNull(etfs)
            /\ pre' = None
            /\ IF symbol = "" \/ name = ""
               THEN /\ alerted' = "none"
                    /\ UNCHANGED <<etfs, ls>>
               ELSE IF SymbolExists(symbol)
               THEN /\ alerted' = "symbol exists"
                    /\ UNCHANGED <<etfs, ls>>
               ELSE LET pushed == Append(etfs, [symbol |-> symbol, name |-> name, prices |-> <<>>])
                    IN  /\ ls' = [ls EXCEPT !.etfs = Some(pushed)]
                        /\ etfs' = RenderedEtfs(pushed)
                        /\ alerted' = "none"
            /\ UNCHANGED <<purchases, goals, ui, result>>

RemoveAt(s, i) == SubSeq(s, 1, i - 1) \o SubSeq(s, i + 1, Len(s))

\* a delete handler that also drops the purchases of the deleted symbol
DeleteEtfCascade ==
    \E i \in 1 .. Len(etfs), confirmed \in BOOLEAN :
        /\ ui.active = "etfs"
        /\ ~HasNull(etfs)
        /\ pre' = None
        /\ alerted' = "none"
        /\ IF ~confirmed THEN UNCHANGED <<etfs, purchases, ui, ls>>
           ELSE LET kept == SelectSeq(etfs, LAMBDA x : x.symbol # etfs[i].symbol)
                IN  /\ ui' = [ui EXCEPT !.expandedEtfs =
                                 SelectSeq(@, LAMBDA sym : sym # etfs[i].symbol)]
                    /\ purchases' = SelectSeq(purchases, LAMBDA q : q.symbol # etfs[i].symbol)
                    /\ ls' = [ls EXCEPT !.ui = Some(ui'), !.etfs = Some(kept),
                                        !.purchases = Some(purchases')]
                    /\ etfs' = RenderedEtfs(kept)
        /\ UNCHANGED <<goals, result>>

\* the delete button of an instrument's row, confirmed or not
DeleteEtf ==
    \E i \in 1 .. Len(etfs), confirmed \in BOOLEAN :
        /\ ui.active = "etfs"
        /\ ~HasNull(etfs)
        /\ pre' = None
        /\ alerted' = "none"
        /\ IF ~confirmed THEN UNCHANGED <<etfs, ui, ls>>
           ELSE LET kept == SelectSeq(etfs, LAMBDA x : x.symbol # etfs[i].symbol)
                IN  /\ ui' = [ui EXCEPT !.expandedEtfs =
                                 SelectSeq(@, LAMBDA sym : sym # etfs[i].symbol)]
                    /\ ls' = [ls EXCEPT !.ui = Some(ui'), !.etfs = Some(kept)]
                    /\ etfs' = RenderedEtfs(kept)
        /\ UNCHANGED <<purchases, goals, result>>

\* addPriceForm.onsubmit of instrument i; ts is parseLocalDatetime(tsVal)
AddPrice ==
    \E i \in 1 .. Len(etfs), ts \in AppTimestamps, priceVal \in PriceInputs :
        /\ ui.active = "etfs"
        /\ ~HasNull(etfs)
        /\ TotalObs(etfs) < MaxAppObs
        /\ pre' = None
        /\ alerted' = "none"
        /\ IF ~isFinite(priceVal) \/ priceVal.v < 0 THEN UNCHANGED <<etfs, ls>>
           ELSE LET pushed == Append(etfs[i].prices, Obs(ts, priceVal.v))
                    saved == [etfs EXCEPT ![i].prices = SortByTs(pushed)]
                IN  /\ ls' = [ls EXCEPT !.etfs = Some(saved)]
                    /\ etfs' = RenderedEtfs(saved)
        /\ UNCHANGED <<purchases, goals, ui, result>>

\* new Date(iso).getTime() of the prompt's text: a timestamp, or NaN
EditTsInputs == {NaN} \cup {Num(t) : t \in AppTimestamps}

\* the edit button of observation j of instrument i: two prompts, either of
\* which may be cancelled or left empty
EditPrice ==
    \E i \in 1 .. Len(etfs) :
      \E j \in 1 .. Len(etfs[i].prices), answered \in BOOLEAN,
         newTs \in EditTsInputs, newPrice \in PriceInputs :
        /\ ui.active = "etfs"
        /\ ~HasNull(etfs)
        /\ pre' = None
        /\ alerted' = "none"
        /\ IF ~answered \/ ~isFinite(newTs) \/ ~isFinite(newPrice)
           THEN UNCHANGED <<etfs, ls>>
           ELSE LET edited == [etfs[i].prices EXCEPT ![j] = Obs(newTs.v, newPrice.v)]
                    saved == [etfs EXCEPT ![i].prices = SortByTs(edited)]
                IN  /\ ls' = [ls EXCEPT !.etfs = Some(saved)]
                    /\ etfs' = RenderedEtfs(saved)
        /\ UNCHANGED <<purchases, goals, ui, result>>

\* the remove button of observation j of instrument i
RemovePrice ==
    \E i \in 1 .. Len(etfs) :
      \E j \in 1 .. Len(etfs[i].prices) :
        /\ ui.active = "etfs"
        /\ ~HasNull(etfs)
        /\ pre' = None
        /\ alerted' = "none"
        /\ LET saved == [etfs EXCEPT ![i].prices = RemoveAt(@, j)]
           IN  /\ ls' = [ls EXCEPT !.etfs = Some(saved)]
               /\ etfs' = RenderedEtfs(saved)
        /\ UNCHANGED <<purchases, goals, ui, result>>

\* the options of the #purchase-symbol select; its value is "" without options
SelectableSymbols ==
    IF etfs = <<>> THEN {""} ELSE {etfs[i].symbol : i \in 1 .. Len(etfs)}

\* form-add-purchase onsubmit
AddPurchase ==
    \E symbol \in SelectableSymbols, ts \in AppTimestamps,
       qtyIn \in QtyInputs, sum \in SumInputs :
        LET fromSum == (~isFinite(qtyIn) \/ qtyIn.v <= 0) /\ isFinite(sum) /\ sum.v > 0
            unit == priceAt(symbol, ts)
            noUnit == fromSum /\ (unit = None \/ unit[1] <= 0)
            qty == IF fromSum /\ ~noUnit THEN Num(sum.v \div unit[1]) ELSE qtyIn
        IN  /\ ui.active = "purchases"
            /\ ~HasNull(etfs)
            /\ Len(purchases) < MaxAppPurchases
            /\ pre' = None
            /\ IF noUnit
               THEN /\ alerted' = "no price"
                    /\ UNCHANGED <<purchases, ls>>
               ELSE IF symbol = "" \/ ~isFinite(qty) \/ qty.v <= 0
               THEN /\ alerted' = "none"
                    /\ UNCHANGED <<purchases, ls>>
               ELSE /\ purchases' = Append(purchases, [symbol |-> symbol, ts |-> ts, qty |-> qty.v])
                    /\ ls' = [ls EXCEPT !.purchases = Some(purchases')]
                    /\ alerted' = "none"
            /\ UNCHANGED <<etfs, goals, ui, result>>

\* the remove button of a purchase row
RemovePurchase ==
    \E i \in 1 .. Len(purchases) :
        /\ ui.active = "purchases"
        /\ ~HasNull(etfs)
        /\ purchases' = RemoveAt(purchases, i)
        /\ ls' = [ls EXCEPT !.purchases = Some(purchases')]
        /\ pre' = None
        /\ alerted' = "none"
        /\ UNCHANGED <<etfs, goals, ui, result>>

(* ------------------------------ import --------------------------------- *)
\* An imported file: whether JSON.parse accepts it, whether the value is an
\* object, and the object's fields.  etfs, purchases and goals are <<arr>> for
\* an array and <<>> for anything else; ui is <<value>> or <<>> when falsy; the
\* ui's expandedEtfs is <<arr>> for an array and <<>> otherwise.
Doc(parses, isObject, es, ps, gs, u) ==
    [parses |-> parses, isObject |-> isObject, etfs |-> es, purchases |-> ps,
     goals |-> gs, ui |-> u]

DocEtfsB == <<Etf("B", <<Obs(2, 2), Obs(1, 0), Obs(2, 0)>>)>>
DocPurchases == <<[symbol |-> "B", ts |-> 1, qty |-> 2]>>
DocGoals == <<[id |-> "goal_1", name |-> "Goal", target |-> 10, monthly |-> 1]>>
DocUi(tab, expanded) == [active |-> tab, expandedEtfs |-> expanded]

Docs ==
    { Doc(FALSE, FALSE, None, None, None, None),       \* not JSON
      Doc(TRUE, FALSE, None, None, None, None),        \* null, a number, a string
      Doc(TRUE, TRUE, None, Some(DocPurchases), None, None),   \* etfs no array
      Doc(TRUE, TRUE, Some(DocEtfsB), None, Some(DocGoals), None), \* purchases no array
      Doc(TRUE, TRUE, Some(<<NullElem>>), Some(<<>>), None, None), \* etfs: [null]
      Doc(TRUE, TRUE, Some(<<NullElem>>), Some(DocPurchases), Some(DocGoals),
          Some(DocUi("purchases", Some(<<"B">>)))),
      Doc(TRUE, TRUE, Some(DocEtfsB), Some(DocPurchases), Some(DocGoals),
          Some(DocUi("dashboard", None))),
      Doc(TRUE, TRUE, Some(DocEtfsB), Some(<<>>), None, None),
      Doc(TRUE, TRUE, Some(<<>>), Some(<<>>), Some(<<>>), Some(DocUi("etfs", Some(<<"B">>)))) }

\* Rejected without the Array.isArray line
RejectedNoObject(doc) == ~doc.parses \/ ~doc.isObject

\* JSON.parse throws, or one of the two throw statements of the try block
Rejected(doc) ==
    ~doc.parses \/ ~doc.isObject \/ doc.etfs = None \/ doc.purchases = None

\* data.etfs || []
OrEmpty(opt) == IF opt = None THEN <<>> ELSE opt[1]

\* reader.onload of importAll; pre records the file and the state it found
ImportAll ==
    \E doc \in Docs :
        /\ pre' = Some([doc |-> doc, state |-> Snapshot])
        /\ IF Rejected(doc)
           THEN /\ alerted' = "import failed"
                /\ UNCHANGED <<etfs, purchases, goals, ui, ls>>
           ELSE LET newGoals == IF doc.goals # None THEN doc.goals[1] ELSE <<>>
                    given == IF doc.ui # None THEN doc.ui[1]
                             ELSE [active |-> ui.active, expandedEtfs |-> Some(ui.expandedEtfs)]
                    newUi == [active |-> given.active,
                              expandedEtfs |-> IF given.expandedEtfs # None
                                               THEN given.expandedEtfs[1] ELSE <<>>]
                    newEtfs == OrEmpty(doc.etfs)
                    saved == [etfs |-> Some(newEtfs), purchases |-> Some(OrEmpty(doc.purchases)),
                              goals |-> Some(newGoals), ui |-> Some(newUi)]
                IN  /\ purchases' = OrEmpty(doc.purchases)
                    /\ goals' = newGoals
                    /\ ui' = newUi
                    /\ ls' = saved
                    /\ IF RenderThrows(newEtfs)
                       THEN \* refreshPurchaseSymbols throws into the catch
                            /\ etfs' = newEtfs
                            /\ alerted' = "import failed"
                       ELSE \* setActiveTab(ui.active) renders, then the success alert
                            /\ etfs' = AfterTab(newEtfs, newUi.active)
                            /\ alerted' = "import ok"
        /\ UNCHANGED result

\* resetAll, confirmed or not
ResetAll ==
    \E confirmed \in BOOLEAN :
        /\ pre' = None
        /\ alerted' = "none"
        /\ IF ~confirmed THEN UNCHANGED <<etfs, purchases, goals, ui, ls>>
           ELSE /\ etfs' = <<>>
                /\ purchases' = <<>>
                /\ goals' = <<>>
                /\ ui' = DefaultUi
                /\ ls' = [etfs |-> Some(<<>>), purchases |-> Some(<<>>),
                          goals |-> Some(<<>>), ui |-> Some(DefaultUi)]
        /\ UNCHANGED result

Next ==
    \/ SetActiveTab
    \/ AddEtf
    \/ DeleteEtf
    \/ AddPrice
    \/ EditPrice
    \/ RemovePrice
    \/ AddPurchase
    \/ RemovePurchase
    \/ ResetAll

Spec == Init /\ [][Next]_vars

(* ------------------- import on the states it may find ------------------ *)
StoredEtfs ==
    { <<>>,
      <<Etf("A", <<Obs(1, 2)>>)>>,
      <<Etf("A", <<Obs(1, 2), Obs(2, 0)>>), Etf("B", <<>>)>> }
StoredPurchases ==
    { <<>>,
      <<[symbol |-> "A", ts |-> 1, qty |-> 1]>>,
      <<[symbol |-> "B", ts |-> 2, qty |-> 2], [symbol |-> "A", ts |-> 1, qty |-> 1]>> }
StoredGoals == {<<>>, <<[id |-> "goal_0", name |-> "Old", target |-> 5, monthly |-> 0]>>}
StoredUi == {DefaultUi, DocUi("purchases", <<>>), DocUi("dashboard", <<"A">>)}

ImportInit ==
    /\ etfs \in StoredEtfs
    /\ purchases \in StoredPurchases
    /\ goals \in StoredGoals
    /\ ui \in StoredUi
    /\ ls = Persisted
    /\ alerted = "none"
    /\ pre = None
    /\ result = NoResult

ImportNext == ImportAll \/ SetActiveTab

ImportSpec == ImportInit /\ [][ImportNext]_vars

(* ------------------------------ startup -------------------------------- *)
\* what ./default-data.json may hold: a failed fetch or a body that is no
\* JSON, a body that is no object, an object without one of the arrays, or a
\* document with both arrays
DefaultDocs == {doc \in Docs : ~HasNull(OrEmpty(doc.etfs))}

\* lines 44-50 and reloadState: storage.get with its fallbacks
Load(store) ==
    [etfs |-> OrEmpty(store.etfs), purchases |-> OrEmpty(store.purchases),
     goals |-> OrEmpty(store.goals),
     ui |-> IF store.ui = None THEN DefaultUi ELSE store.ui[1]]

\* hasAny looking at the instruments' key alone
HasAnyEtfsOnly(store) == store.etfs # None

\* getItem(etfs) || getItem(purchases) || getItem(goals) || getItem(ui): a
\* stored value is a JSON text, never the empty string
HasAny(store) ==
    store.etfs # None \/ store.purchases # None \/ store.goals # None \/ store.ui # None

\* the four saves of ensureDefaults; the ui is stored as the document gives it,
\* and reloadState and setActiveTab's saveUi leave it with an array
Seeded(doc) ==
    LET given == IF doc.ui # None THEN doc.ui[1]
                 ELSE [active |-> "etfs", expandedEtfs |-> Some(<<>>)]
    IN  [etfs |-> Some(OrEmpty(doc.etfs)), purchases |-> Some(OrEmpty(doc.purchases)),
         goals |-> Some(OrEmpty(doc.goals)),
         ui |-> Some([active |-> given.active,
                      expandedEtfs |-> OrEmpty(given.expandedEtfs)])]

\* the store ensureDefaults leaves: the early return, a throw into the catch,
\* or the seeded store
EnsureDefaults(store, doc) ==
    IF HasAny(store) \/ Rejected(doc) THEN store ELSE Seeded(doc)

\* a page load: the state is built from the store, ensureDefaults runs with
\* the document the fetch delivers, initTabs shows the stored tab and saves
\* the ui; pre records the document and the state the load found
Startup ==
    \E doc \in DefaultDocs :
        LET store == EnsureDefaults(ls, doc)
            mem == Load(store)
        IN  /\ pre' = Some([doc |-> doc, state |-> Snapshot])
            /\ purchases' = mem.purchases
            /\ goals' = mem.goals
            /\ ui' = mem.ui
            /\ ls' = [store EXCEPT !.ui = Some(mem.ui)]
            /\ etfs' = AfterTab(mem.etfs, mem.ui.active)
            /\ alerted' = "none"
            /\ UNCHANGED result

\* a browser that has never opened the page
BootInit ==
    /\ etfs = <<>>
    /\ purchases = <<>>
    /\ goals = <<>>
    /\ ui = DefaultUi
    /\ ls = [etfs |-> None, purchases |-> None, goals |-> None, ui |-> None]
    /\ alerted = "none"
    /\ pre = None
    /\ result = NoResult

\* the handlers exist once initTabs has run, which leaves the ui key stored
Booted == ls.ui # None

BootNext ==
    \/ Startup
    \/ Booted /\ SetActiveTab
    \/ Booted /\ AddEtf
    \/ Booted /\ DeleteEtf
    \/ Booted /\ ResetAll

BootSpec == BootInit /\ [][BootNext]_vars

(* ------------- the instrument forms on a filled portfolio -------------- *)
InstrumentPricesA == {<<>>, <<Obs(1, 2)>>, <<Obs(1, 1), Obs(2, 2)>>}
InstrumentPricesB == {<<>>, <<Obs(2, 1)>>}
InstrumentEtfs ==
    {<<>>}
    \cup {<<Etf("A", pa)>> : pa \in InstrumentPricesA}
    \cup {<<Etf("B", pb)>> : pb \in InstrumentPricesB}
    \cup {<<Etf("A", pa), Etf("B", pb)>> : pa \in InstrumentPricesA, pb \in InstrumentPricesB}
    \cup {<<Etf("B", pb), Etf("A", pa)>> : pa \in InstrumentPricesA, pb \in InstrumentPricesB}
InstrumentPurchases ==
    {[symbol |-> "A", ts |-> 1, qty |-> 1], [symbol |-> "A", ts |-> 2, qty |-> 2],
     [symbol |-> "B", ts |-> 2, qty |-> 2]}

\* a stored portfolio, loaded with the purchases tab active; every purchase is
\* of a listed instrument, as the purchase form leaves it
InstrumentInit ==
    /\ etfs \in InstrumentEtfs
    /\ purchases \in SeqsUpTo(InstrumentPurchases, 2)
    /\ \A k \in 1 .. Len(purchases) : FindEtf(purchases[k].symbol) # 0
    /\ goals = <<>>
    /\ ui = DocUi("purchases", <<>>)
    /\ ls = Persisted
    /\ alerted = "none"
    /\ pre = None
    /\ result = NoResult

InstrumentNext == AddEtf \/ DeleteEtf \/ SetActiveTab

InstrumentSpec == InstrumentInit /\ [][InstrumentNext]_vars

(* ------------------------- goal projection ----------------------------- *)
MaxAmount == 5
GoalInputs == {NaN, Infinite} \cup {Num(x) : x \in (0 - MaxAmount) .. MaxAmount}

\* `+x || 0`: NaN and 0 become 0, every other number stays
OrZeroNum(x) == IF x = NaN THEN Num(0) ELSE x

\* Math.ceil(a / b) for integers a >= 0, b > 0
CeilDiv(a, b) == (a + b - 1) \div b

\* Math.floor(a / b) for integers a >= 0, b > 0
FloorDiv(a, b) == a \div b

\* monthsToReach rounding down
monthsToReachFloor(target, monthly) ==
    LET t == OrZeroNum(target)
        m == OrZeroNum(monthly)
    IN  IF isFinite(m) /\ m.v <= 0 THEN Infinite
        ELSE IF m = Infinite THEN (IF t = Infinite THEN NaN ELSE Num(0))
        ELSE IF t = Infinite THEN Infinite
        ELSE Num(FloorDiv(IF t.v > 0 THEN t.v ELSE 0, m.v))

monthsToReach(target, monthly) ==
    LET t == OrZeroNum(target)
        m == OrZeroNum(monthly)
    IN  IF isFinite(m) /\ m.v <= 0 THEN Infinite
        \* remaining / Infinity is 0, Infinity / Infinity is NaN
        ELSE IF m = Infinite THEN (IF t = Infinite THEN NaN ELSE Num(0))
        ELSE IF t = Infinite THEN Infinite
        ELSE Num(CeilDiv(IF t.v > 0 THEN t.v ELSE 0, m.v))

GoalInit ==
    /\ etfs = <<>>
    /\ purchases = <<>>
    /\ goals = <<>>
    /\ ui = DefaultUi
    /\ ls = Persisted
    /\ alerted = "none"
    /\ pre = None
    /\ result = NoResult

CallMonthsToReach ==
    \E target \in GoalInputs, monthly \in GoalInputs :
        /\ result' = [op |-> "monthsToReach", target |-> target, monthly |-> monthly,
                      value |-> monthsToReach(target, monthly)]
        /\ UNCHANGED <<etfs, purchases, goals, ui, ls, alerted, pre>>

GoalNext == CallMonthsToReach

GoalSpec == GoalInit /\ [][GoalNext]_vars

(* ------------------------------ claims --------------------------------- *)
PricesOf(symbol) == etfs[FindEtf(symbol)].prices

HasObs(symbol) == FindEtf(symbol) # 0 /\ Len(PricesOf(symbol)) > 0

\* C2: when some observation has ts <= t, priceAt(symbol, t) is the price of an
\* observation with ts <= t that no other observation with ts <= t is later
\* than, whatever the stored order of the observations; the observation it
\* resolves to is never one with ts > t.
C2_AsOf ==
    (result.op = "priceAt" /\ HasObs(result.symbol)
        /\ \E i \in 1 .. Len(PricesOf(result.symbol)) :
              PricesOf(result.symbol)[i].ts <= result.ts)
    => LET ps == PricesOf(result.symbol)
       IN  /\ \E i \in 1 .. Len(ps) :
                 /\ ps[i].ts <= result.ts
                 /\ \A j \in 1 .. Len(ps) : ps[j].ts <= result.ts => ps[j].ts <= ps[i].ts
                 /\ result.value = Some(ps[i].price)
           /\ ResolveObs(ps, result.ts).ts <= result.ts

\* a query between two observations stored in descending order
C2_Witness ==
    /\ result.op = "priceAt" /\ HasObs(result.symbol)
    /\ LET ps == PricesOf(result.symbol)
       IN  /\ Len(ps) = 3
           /\ ps[1].ts > ps[2].ts /\ ps[2].ts > ps[3].ts
           /\ result.ts = ps[2].ts
           /\ ps[1].price # ps[2].price /\ ps[3].price # ps[2].price
           /\ result.value = Some(ps[2].price)

\* C3: for t strictly before the earliest observation, priceAt(symbol, t) is
\* the price of the earliest observation, the first stored one among several
\* at that earliest timestamp.
C3_BeforeEarliest ==
    (result.op = "priceAt" /\ HasObs(result.symbol)
        /\ \A i \in 1 .. Len(PricesOf(result.symbol)) :
              result.ts < PricesOf(result.symbol)[i].ts)
    => LET ps == PricesOf(result.symbol)
           first == CHOOSE i \in 1 .. Len(ps) :
                       /\ \A j \in 1 .. Len(ps) : ps[i].ts <= ps[j].ts
                       /\ \A j \in 1 .. (i - 1) : ps[j].ts # ps[i].ts
       IN  result.value = Some(ps[first].price)

\* a query before three observations, the earliest stored last
C3_Witness ==
    /\ result.op = "priceAt" /\ HasObs(result.symbol)
    /\ LET ps == PricesOf(result.symbol)
       IN  /\ Len(ps) = 3
           /\ ps[3].ts < ps[1].ts /\ ps[3].ts < ps[2].ts
           /\ result.ts < ps[3].ts
           /\ ps[1].price # ps[3].price /\ ps[2].price # ps[3].price
           /\ result.value = Some(ps[3].price)

\* the sum of the first n entries of a sequence of numbers
RECURSIVE SumTo(_, _)
SumTo(f, n) == IF n = 0 THEN 0 ELSE f[n] + SumTo(f, n - 1)

OrZero(opt) == IF opt = None THEN 0 ELSE opt[1]

\* the cost of the purchases made at or before t, each at its own price
InvestedAt(t) ==
    SumTo([i \in 1 .. Len(purchases) |->
              IF purchases[i].ts <= t
              THEN purchases[i].qty * OrZero(priceAt(purchases[i].symbol, purchases[i].ts))
              ELSE 0], Len(purchases))

\* C1: every point of the invested series equals the independent recomputation
\* at its timestamp: the sum over the purchases with ts <= t of
\* qty * priceAt(symbol, purchase.ts), a null price contributing 0.
C1_InvestedIndependent ==
    result.op = "chart"
    => \A k \in 1 .. Len(result.value.points) :
          /\ result.value.seriesInvested[k].x = result.value.points[k]
          /\ result.value.seriesInvested[k].y = InvestedAt(result.value.points[k])

\* C4: computeTotals is the per-purchase sums at the purchase time's price and
\* at the latest price, null prices skipped, their difference, and the
\* percentage pl / invested * 100 when invested > 0 and 0 otherwise.
C4_Totals ==
    result.op = "totals"
    => LET v == result.value
           n == Len(purchases)
           inv == SumTo([i \in 1 .. n |->
                     purchases[i].qty * OrZero(priceAt(purchases[i].symbol, purchases[i].ts))], n)
           cur == SumTo([i \in 1 .. n |->
                     purchases[i].qty * OrZero(latestPrice(purchases[i].symbol))], n)
       IN  /\ v.invested = inv
           /\ v.current = cur
           /\ v.pl = cur - inv
           /\ v.plPct.den > 0
           /\ IF inv > 0 THEN v.plPct.num * inv = (cur - inv) * 100 * v.plPct.den
              ELSE v.plPct.num = 0
           /\ n = 0 => v.invested = 0 /\ v.current = 0 /\ v.pl = 0 /\ v.plPct.num = 0

\* totals of a priced purchase whose current value differs from its cost
C4_Witness ==
    /\ result.op = "totals"
    /\ Len(purchases) >= 1
    /\ result.value.invested > 0
    /\ result.value.pl # 0
    /\ result.value.plPct.num # 0

\* the quantity of a symbol held at t
QtyHeld(s, t) ==
    SumTo([i \in 1 .. Len(purchases) |->
              IF purchases[i].symbol = s /\ purchases[i].ts <= t THEN purchases[i].qty ELSE 0],
          Len(purchases))

\* C5: every point of the value series is the sum over the symbols of the
\* quantity bought at or before t times priceAt(symbol, t); later purchases
\* contribute nothing and a symbol with a null price is skipped.
C5_ValueSeries ==
    result.op = "chart"
    => \A k \in 1 .. Len(result.value.points) :
          LET t == result.value.points[k]
          IN  /\ result.value.seriesCurrent[k].x = t
              /\ result.value.seriesCurrent[k].y =
                    QtyHeld("A", t) * OrZero(priceAt("A", t))
                    + QtyHeld("B", t) * OrZero(priceAt("B", t))

\* a point that holds a priced purchase while another priced purchase is later
C5_Witness ==
    /\ result.op = "chart"
    /\ \E k \in 1 .. Len(result.value.points) :
          /\ result.value.seriesCurrent[k].y > 0
          /\ \E i \in 1 .. Len(purchases) :
                /\ purchases[i].ts > result.value.points[k]
                /\ priceAt(purchases[i].symbol, result.value.points[k]) # None

\* C6: with no range filter the sample timestamps are exactly the price
\* timestamps of all instruments and the purchase timestamps, strictly
\* ascending, so without duplicates.
C6_Timeline ==
    (result.op = "chart" /\ result.from = None /\ result.to = None)
    => LET pts == result.value.points
       IN  /\ \A k \in 1 .. (Len(pts) - 1) : pts[k] < pts[k + 1]
           /\ \A i \in 1 .. Len(etfs) : \A j \in 1 .. Len(etfs[i].prices) :
                 \E k \in 1 .. Len(pts) : pts[k] = etfs[i].prices[j].ts
           /\ \A i \in 1 .. Len(purchases) :
                 \E k \in 1 .. Len(pts) : pts[k] = purchases[i].ts
           /\ \A k \in 1 .. Len(pts) :
                 \/ \E i \in 1 .. Len(purchases) : purchases[i].ts = pts[k]
                 \/ \E i \in 1 .. Len(etfs) : \E j \in 1 .. Len(etfs[i].prices) :
                       etfs[i].prices[j].ts = pts[k]

\* a price timestamp that is also a purchase timestamp, and a second sample
C6_Witness ==
    /\ result.op = "chart" /\ result.from = None /\ result.to = None
    /\ Len(result.value.points) = 2
    /\ \E i \in 1 .. Len(purchases) : \E e \in 1 .. Len(etfs) :
          \E j \in 1 .. Len(etfs[e].prices) : etfs[e].prices[j].ts = purchases[i].ts
    /\ \E i \in 1 .. Len(purchases) : \A e \in 1 .. Len(etfs) :
          \A j \in 1 .. Len(etfs[e].prices) : etfs[e].prices[j].ts # purchases[i].ts

\* C7: an import that ends in the failure alert leaves etfs, purchases, goals
\* and ui, in memory and persisted, as the import found them.
C7_ImportAtomic ==
    (pre # None /\ alerted = "import failed") => Snapshot = pre[1].state

\* C8: a file that is no object, or whose etfs or purchases is no array, ends
\* in the failure alert with etfs, purchases, goals and ui, in memory and
\* persisted, as the import found them.
C8_RejectedUntouched ==
    (pre # None
        /\ (~pre[1].doc.parses \/ ~pre[1].doc.isObject
              \/ pre[1].doc.etfs = None \/ pre[1].doc.purchases = None))
    => (alerted = "import failed" /\ Snapshot = pre[1].state)

\* an object whose etfs is no array, imported over stored instruments
C8_Witness ==
    /\ pre # None
    /\ pre[1].doc.isObject /\ pre[1].doc.etfs = None /\ pre[1].doc.purchases # None
    /\ alerted = "import failed"
    /\ Len(etfs) = 2 /\ Len(purchases) = 2 /\ goals # <<>>
    /\ ls.etfs = Some(etfs)

\* C9: an instrument holds at most one observation per timestamp.
C9_UniqueTimestamps ==
    \A i \in 1 .. Len(etfs) :
        \A j, k \in 1 .. Len(etfs[i].prices) :
            j # k => etfs[i].prices[j].ts # etfs[i].prices[k].ts

\* C10: every stored price is >= 0 and every stored quantity is > 0.
C10_ValidNumbers ==
    /\ \A i \in 1 .. Len(etfs) :
          \A j \in 1 .. Len(etfs[i].prices) : etfs[i].prices[j].price >= 0
    /\ \A i \in 1 .. Len(purchases) : purchases[i].qty > 0

\* C11: priceAt and latestPrice return null exactly when no instrument has the
\* symbol or the instrument has no observation; with an observation both
\* return a price for every query time.
C11_NullOnlyWithoutObs ==
    result.op \in {"priceAt", "latestPrice"}
    => LET withObs == \E i \in 1 .. Len(etfs) :
                         etfs[i].symbol = result.symbol /\ Len(etfs[i].prices) > 0
       IN  /\ (result.value = None) <=> ~withObs
           /\ withObs => \E i \in 1 .. Len(etfs) : \E j \in 1 .. Len(etfs[i].prices) :
                            /\ etfs[i].symbol = result.symbol
                            /\ result.value = Some(etfs[i].prices[j].price)

\* a price for a query before every observation of the instrument
C11_Witness ==
    /\ result.op = "priceAt" /\ HasObs(result.symbol)
    /\ Len(PricesOf(result.symbol)) >= 2
    /\ \A j \in 1 .. Len(PricesOf(result.symbol)) : result.ts < PricesOf(result.symbol)[j].ts
    /\ result.value # None

\* C12: for an instrument with an observation and a query time at or after its
\* latest observation, priceAt returns what latestPrice returns.
C12_LatestIsAsOfMax ==
    (result.op = "priceAt" /\ HasObs(result.symbol)
        /\ \A j \in 1 .. Len(PricesOf(result.symbol)) :
              PricesOf(result.symbol)[j].ts <= result.ts)
    => result.value = latestPrice(result.symbol)

\* a query after three observations of which the latest is not stored last
C12_Witness ==
    /\ result.op = "priceAt" /\ HasObs(result.symbol)
    /\ LET ps == PricesOf(result.symbol)
       IN  /\ Len(ps) = 3
           /\ ps[1].ts > ps[2].ts /\ ps[1].ts > ps[3].ts
           /\ ps[1].price # ps[3].price
           /\ result.ts > ps[1].ts
           /\ result.value = Some(ps[1].price)
           /\ latestPrice(result.symbol) = Some(ps[1].price)

\* C13: for numbers target and monthly, monthsToReach returns +infinity when
\* monthly <= 0 and otherwise the least integer r with r * monthly >=
\* max(0, target), which is 0 when target <= 0.
C13_MonthsToReach ==
    (result.op = "monthsToReach" /\ isFinite(result.target) /\ isFinite(result.monthly))
    => LET t == result.target.v
           m == result.monthly.v
           remaining == IF t > 0 THEN t ELSE 0
           r == result.value
       IN  /\ m <= 0 => r = Infinite
           /\ m > 0 => /\ isFinite(r)
                       /\ r.v >= 0
                       /\ r.v * m >= remaining
                       /\ (r.v - 1) * m < remaining
           /\ (m > 0 /\ t <= 0) => r = Num(0)

\* a target that is not a multiple of the monthly amount
C13_Witness ==
    /\ result.op = "monthsToReach"
    /\ result.target = Num(5) /\ result.monthly = Num(2)
    /\ result.value = Num(3)

\* the symbols a step removes from the instrument collection
Gone == {etfs[i].symbol : i \in 1 .. Len(etfs)} \ {etfs'[i].symbol : i \in 1 .. Len(etfs')}

\* after the step: the purchases of the removed symbols find no price, and the
\* totals and the value at every point of the timeline are those of the other
\* purchases alone
C14_Inert ==
    LET live == [k \in 1 .. Len(purchases) |-> purchases[k].symbol \notin Gone]
    IN  /\ \A k \in 1 .. Len(purchases) :
              ~live[k] => /\ latestPrice(purchases[k].symbol)' = None
                          /\ \A t \in QueryTimes : priceAt(purchases[k].symbol, t)' = None
        /\ computeTotals'.invested =
              SumTo([k \in 1 .. Len(purchases) |->
                        IF live[k]
                        THEN purchases[k].qty
                             * OrZero(priceAt(purchases[k].symbol, purchases[k].ts)')
                        ELSE 0], Len(purchases))
        /\ computeTotals'.current =
              SumTo([k \in 1 .. Len(purchases) |->
                        IF live[k]
                        THEN purchases[k].qty * OrZero(latestPrice(purchases[k].symbol)')
                        ELSE 0], Len(purchases))
        /\ \A t \in QueryTimes :
              (t \in TimesSet)' =>
                 ValuePoint(t)'.y =
                    SumTo([k \in 1 .. Len(purchases) |->
                              IF live[k] /\ purchases[k].ts <= t
                              THEN purchases[k].qty
                                   * OrZero(priceAt(purchases[k].symbol, t)')
                              ELSE 0], Len(purchases))

\* C14: a confirmed delete of an instrument leaves the purchases in memory and
\* in the store as they were, and afterwards the purchases of the deleted
\* symbol resolve to null and add 0 to invested, current and every value point.
C14_DeleteKeepsPurchases ==
    [][(DeleteEtf /\ Len(etfs') < Len(etfs))
        => /\ purchases' = purchases
           /\ ls'.purchases = ls.purchases
           /\ C14_Inert]_vars

\* a stored purchase of a symbol that is no longer listed, next to a purchase
\* of a listed instrument that has a price
C14_Witness ==
    /\ \E k \in 1 .. Len(purchases) : FindEtf(purchases[k].symbol) = 0
    /\ \E k \in 1 .. Len(purchases) : latestPrice(purchases[k].symbol) # None
    /\ ls.purchases = Some(purchases)
    /\ computeTotals.current > 0

\* C15: a call of latestPrice, priceAt, computeTotals or the series
\* construction leaves the instruments (the stored order of the observations
\* included), the purchases and the goals as they were, and a call that
\* repeats the previous call returns what the previous call returned.
C15_NoSideEffects ==
    [][/\ etfs' = etfs
       /\ purchases' = purchases
       /\ goals' = goals
       /\ (result.op # "none" /\ result'.op = result.op
             /\ [result' EXCEPT !.value = None] = [result EXCEPT !.value = None])
          => result'.value = result.value]_vars

\* totals computed over a purchase of an instrument whose observations are
\* stored latest first
C15_Witness ==
    /\ result.op = "totals"
    /\ result.value.invested > 0
    /\ goals # <<>>
    /\ \E k \in 1 .. Len(purchases) :
          /\ HasObs(purchases[k].symbol)
          /\ LET ps == PricesOf(purchases[k].symbol)
             IN  Len(ps) >= 2 /\ ps[1].ts > ps[2].ts

\* the two sequences hold the same elements, each as often
SameElements(a, b) ==
    /\ Len(a) = Len(b)
    /\ \A i \in 1 .. Len(a) :
          Cardinality({j \in 1 .. Len(a) : a[j] = a[i]})
             = Cardinality({j \in 1 .. Len(b) : b[j] = a[i]})

\* C16: after a page load, with `found` the store the load found and `doc` the
\* default document: if any key existed, the stored instruments, purchases and
\* goals are as found and the memory holds them (the instruments in the order
\* the tab shows them); the store holds the document's collections only if no
\* key existed; a document without an etfs or a purchases array leaves the
\* three keys as found.
C16_SeedOnlyEmptyStore ==
    pre # None
    => LET found == pre[1].state.ls
           doc == pre[1].doc
           existed == \E key \in {"etfs", "purchases", "goals", "ui"} : found[key] # None
           kept == /\ ls.etfs = found.etfs
                   /\ ls.purchases = found.purchases
                   /\ ls.goals = found.goals
       IN  /\ existed => /\ kept
                         /\ SameElements(etfs, OrEmpty(found.etfs))
                         /\ purchases = OrEmpty(found.purchases)
                         /\ goals = OrEmpty(found.goals)
           /\ ~kept => /\ ~existed
                       /\ doc.etfs # None /\ doc.purchases # None
                       /\ ls.etfs = doc.etfs
                       /\ ls.purchases = doc.purchases
                       /\ ls.goals = Some(OrEmpty(doc.goals))
                       /\ SameElements(etfs, doc.etfs[1])
                       /\ purchases = doc.purchases[1]
           /\ (doc.etfs = None \/ doc.purchases = None) => kept

\* a page load after a confirmed reset: the store held the four keys with
\* empty collections, the default document is a full one, nothing is seeded
C16_Witness ==
    /\ pre # None
    /\ pre[1].state.ls = [etfs |-> Some(<<>>), purchases |-> Some(<<>>),
                          goals |-> Some(<<>>), ui |-> Some(DefaultUi)]
    /\ pre[1].doc.etfs = Some(DocEtfsB) /\ pre[1].doc.purchases = Some(DocPurchases)
    /\ etfs = <<>> /\ purchases = <<>>
    /\ ls.etfs = Some(<<>>)

\* the symbols are pairwise distinct, in memory and in the store
DistinctSymbols ==
    /\ \A i \in 1 .. Len(etfs) : \A j \in 1 .. Len(etfs) :
          etfs[i].symbol = etfs[j].symbol => i = j
    /\ \A i \in 1 .. Len(ls.etfs[1]) : \A j \in 1 .. Len(ls.etfs[1]) :
          ls.etfs[1][i].symbol = ls.etfs[1][j].symbol => i = j
    /\ SameElements(etfs, ls.etfs[1])

\* C17: the symbols of the instrument collection are pairwise distinct in
\* every state the add and delete forms reach from a collection with distinct
\* symbols; a step that raises the alert of a taken symbol leaves the
\* collection and the store as they were, and any other add leaves the
\* collection as it was or one instrument longer.
C17_DistinctSymbols ==
    /\ []DistinctSymbols
    /\ [][/\ alerted' = "symbol exists" => UNCHANGED <<etfs, ls>>
          /\ AddEtf => \/ etfs' = etfs
                       \/ /\ Len(etfs') = Len(etfs) + 1
                          /\ \E k \in 1 .. Len(etfs') :
                                /\ \A i \in 1 .. Len(etfs) : etfs[i].symbol # etfs'[k].symbol
                                /\ SameElements(RemoveAt(etfs', k), etfs)]_vars

\* the alert of an add whose symbol is taken, with two instruments listed
C17_Witness ==
    /\ alerted = "symbol exists"
    /\ Len(etfs) = 2
    /\ etfs[1].symbol # etfs[2].symbol
====
